---- MODULE Spec2Model ----
(***************************************************************************)
(* zustand-sliced: namespaced slices over a zustand store.                 *)
(*                                                                         *)
(* The module models `sliced` in its two forms (the state creator handed   *)
(* to zustand's create(), and the older form that builds its own store),   *)
(* the scoped set and full get it hands to every slice creator, the store  *)
(* engine they drive (setState / getState / subscribe), and the slices of  *)
(* the test suite (auth, cart, counter) as the client.                     *)
(***************************************************************************)
EXTENDS Integers, Sequences, FiniteSets, TLC

VARIABLES
    variant,       \* which `sliced` built the store: "creator" or "store"
    keys,          \* Object.keys(definitions), in iteration order
    pc,            \* "loop" while sliced's for-loop runs, "ready" once the store exists
    i,             \* position of the for-loop in keys
    initialState,  \* the accumulator `initialState` of sliced
    created,       \* the keys whose creator has been invoked, in invocation order
    binding,       \* per slice, the `key` its scopedSet closure captured
    state,         \* the engine's state (undefined until construction ends)
    listeners,     \* the engine's subscribed listeners
    calls,         \* per listener, the states it has been called with
    commits,       \* number of state replacements the engine has made
    setArgs,       \* (replace, action name) of the engine's last setState call
    ncalls,        \* number of scoped-set calls the client has made
    applied,       \* per slice, the partials its scoped set has merged, in call order
    last,          \* the last operation of the client and its outcome
    layers,        \* the layers that have replaced api.setState, innermost first
    seen,          \* the setState calls the layers have been entered with, in order
    storage,       \* what the persistence layer has written to its storage
    state2,        \* the state of a second store built from the same definitions
    api2,          \* the engine the second store's closures reach (0: not built)
    mw2,           \* the middleware the second store was created with
    heap,          \* the objects allocated so far, by reference
    root,          \* the reference of the engine's state object (0: none)
    held           \* a snapshot a reader holds: its reference and what it read

vars == <<variant, keys, pc, i, initialState, created, binding, state,
          listeners, calls, commits, setArgs, ncalls, applied, last,
          layers, seen, storage, state2, api2, mw2, heap, root, held>>

\* the state of the layers, the second store and the heap
ext == <<layers, seen, storage, state2, api2, mw2, heap, root, held>>

-----------------------------------------------------------------------------
(* Bounds *)

MaxCalls == 3       \* scoped-set calls per behaviour
MaxSubCalls == 2    \* scoped-set calls per behaviour with listeners, or with any definitions

-----------------------------------------------------------------------------
(* JavaScript values.  Record constructors list their fields in alphabetical *)
(* order, the order TLC keeps them in.                                      *)

Undefined == [undefined |-> TRUE]
Null == "<null>"
EmptyObject == [f \in {} |-> 0]

IsObject(v) == "undefined" \notin DOMAIN v

\* !v for the values a slice field `user` holds (null or a string)
Falsy(v) == v = Null \/ v = ""

\* { ...a, ...b }
Spread(a, b) ==
    [f \in DOMAIN a \cup DOMAIN b |-> IF f \in DOMAIN b THEN b[f] ELSE a[f]]

\* { ...a, ...b } where b may be undefined (spreading undefined adds nothing)
SpreadMaybe(a, b) == IF IsObject(b) THEN Spread(a, b) ELSE Spread(a, EmptyObject)

-----------------------------------------------------------------------------
(* The client: the slice definitions of the test suite *)

Keys == {"auth", "cart", "counter"}
Variants == {"creator", "store"}
Listeners == {"l1", "l2"}
Names == {"", "Alice"}
Items == {"Gadget", "Widget"}
Amounts == {2}
ExtraVals == {1, 2}

DefKeys == <<"auth", "cart", "counter">>

\* every definitions object over the three creators: its keys, in iteration order
KeyOrders ==
    {s \in UNION {[1..n -> Keys] : n \in 1..Cardinality(Keys)} :
        \A a, b \in DOMAIN s : a # b => s[a] # s[b]}

\* definitions[key](scopedSet, fullGet): the record the slice creator returns
creator(key) ==
    CASE key = "auth"    -> [login |-> "auth.login", user |-> Null]
      [] key = "cart"    -> [add |-> "cart.add", checkout |-> "cart.checkout",
                             items |-> << >>]
      [] key = "counter" -> [add |-> "counter.add", count |-> 0,
                             inc |-> "counter.inc"]

\* The arguments a scoped set is called with.
RecordForm(r) == [form |-> "record", rec |-> r]
IncUpdater(n) == [form |-> "fn", n |-> n, name |-> "inc"]
PushUpdater(x) == [form |-> "fn", item |-> x, name |-> "push"]
VoidUpdater == [form |-> "fn", name |-> "void"]
EmptyUpdater == [form |-> "fn", name |-> "empty"]
ThrowUpdater == [form |-> "fn", name |-> "throw"]
\* updaters in the draft style: they edit the record they are handed and return nothing
DraftInc(n) == [form |-> "fn", n |-> n, name |-> "draftInc"]
DraftPush(x) == [form |-> "fn", item |-> x, name |-> "draftPush"]
Boom == "boom"

\* partial(prevSlice) for an updater function: what it returns, or that it throws
Call(fn, prevSlice) ==
    CASE fn.name = "inc"   -> [t |-> "return", v |-> [count |-> prevSlice.count + fn.n]]
      [] fn.name = "push"  -> [t |-> "return", v |-> [items |-> Append(prevSlice.items, fn.item)]]
      [] fn.name = "void"  -> [t |-> "return", v |-> Undefined]
      [] fn.name = "empty" -> [t |-> "return", v |-> EmptyObject]
      [] fn.name = "throw" -> [error |-> Boom, t |-> "throw"]
      [] fn.name \in {"draftInc", "draftPush"} -> [t |-> "return", v |-> Undefined]

\* the record an updater was handed, after the updater has run: what the
\* draft-style updaters have edited in it
DraftAfter(fn, prevSlice) ==
    CASE fn.name = "draftInc"  -> [prevSlice EXCEPT !.count = @ + fn.n]
      [] fn.name = "draftPush" -> [prevSlice EXCEPT !.items = Append(@, fn.item)]
      [] OTHER -> prevSlice

-----------------------------------------------------------------------------
(* The store engine (zustand's vanilla store) *)

\* Object.assign({}, state, nextState)
ObjectAssign(st, nextState) == SpreadMaybe(st, nextState)

\* replace ?? (typeof nextState !== "object" || nextState === null)
Replaces(replace, nextState) ==
    IF replace = "undefined" THEN ~IsObject(nextState) ELSE replace = "true"

\* setState once partial(state) has returned nextState: the state is replaced
\* and every listener is called with it
setState(w, nextState, replace, name) ==
    LET st == IF Replaces(replace, nextState) THEN nextState
              ELSE ObjectAssign(w.state, nextState)
    IN [w EXCEPT !.state = st,
                 !.calls = [l \in DOMAIN w.calls |->
                              IF l \in listeners THEN Append(w.calls[l], st)
                              ELSE w.calls[l]],
                 !.commits = w.commits + 1,
                 !.setArgs = [name |-> name, replace |-> replace]]

getState(w) == w.state

-----------------------------------------------------------------------------
(* sliced *)

\* transition with the slice read from the closure's initialState instead of prev
transition_stale(key, partial, prev) ==
    LET prevSlice == initialState[key] IN
    IF partial.form = "fn" THEN
        LET result == Call(partial, prevSlice) IN
        IF result.t = "throw" THEN result
        ELSE IF ~IsObject(result.v) THEN [t |-> "return", v |-> Undefined]
        ELSE [t |-> "return", v |-> (key :> Spread(prevSlice, result.v))]
    ELSE [t |-> "return", v |-> (key :> Spread(prevSlice, partial.rec))]

\* transition without the spread of prevSlice
transition_noSpread(key, partial, prev) ==
    LET prevSlice == prev[key] IN
    IF partial.form = "fn" THEN
        LET result == Call(partial, prevSlice) IN
        IF result.t = "throw" THEN result
        ELSE IF ~IsObject(result.v) THEN [t |-> "return", v |-> Undefined]
        ELSE [t |-> "return", v |-> (key :> result.v)]
    ELSE [t |-> "return", v |-> (key :> partial.rec)]

\* transition with the updater's error caught and turned into a no-op
transition_caught(key, partial, prev) ==
    LET prevSlice == prev[key] IN
    IF partial.form = "fn" THEN
        LET result == Call(partial, prevSlice) IN
        IF result.t = "throw" THEN [t |-> "return", v |-> Undefined]
        ELSE IF ~IsObject(result.v) THEN [t |-> "return", v |-> Undefined]
        ELSE [t |-> "return", v |-> (key :> Spread(prevSlice, result.v))]
    ELSE [t |-> "return", v |-> (key :> Spread(prevSlice, partial.rec))]

\* transition returning a partial also when the updater returned nothing
transition_noVoid(key, partial, prev) ==
    LET prevSlice == prev[key] IN
    IF partial.form = "fn" THEN
        LET result == Call(partial, prevSlice) IN
        IF result.t = "throw" THEN result
        ELSE [t |-> "return", v |-> (key :> SpreadMaybe(prevSlice, result.v))]
    ELSE [t |-> "return", v |-> (key :> Spread(prevSlice, partial.rec))]

\* the function scopedSet hands to api.setState (state-creator form)
transition(key, partial, prev) ==
    LET prevSlice == prev[key] IN
    IF partial.form = "fn" THEN
        LET result == Call(partial, prevSlice) IN
        IF result.t = "throw" THEN result
        ELSE IF ~IsObject(result.v) THEN [t |-> "return", v |-> Undefined]
        ELSE [t |-> "return", v |-> (key :> Spread(prevSlice, result.v))]
    ELSE [t |-> "return", v |-> (key :> Spread(prevSlice, partial.rec))]

\* scopedSet with the replace flag true
scopedSet_replace(w, key, partial) ==
    LET next == transition(key, partial, w.state) IN
    IF next.t = "throw" THEN [w EXCEPT !.thrown = TRUE, !.error = next.error]
    ELSE setState(w, next.v, "true", key \o "/set")

\* scopedSet with no replace flag passed
scopedSet_noFlag(w, key, partial) ==
    LET next == transition(key, partial, w.state) IN
    IF next.t = "throw" THEN [w EXCEPT !.thrown = TRUE, !.error = next.error]
    ELSE setState(w, next.v, "undefined", key \o "/set")

\* scopedSet that sets the state twice
scopedSet_twice(w, key, partial) ==
    LET next == transition(key, partial, w.state) IN
    IF next.t = "throw" THEN [w EXCEPT !.thrown = TRUE, !.error = next.error]
    ELSE setState(setState(w, next.v, "false", key \o "/set"),
                  next.v, "false", key \o "/set")

\* scopedSet of the state-creator form
scopedSet(w, key, partial) ==
    LET next == transition(key, partial, w.state) IN
    IF next.t = "throw" THEN [w EXCEPT !.thrown = TRUE, !.error = next.error]
    ELSE setState(w, next.v, "false", key \o "/set")

\* the function scopedSet hands to store.setState (store-building form)
storeTransition(key, partial, prev) ==
    LET prevSlice == prev[key] IN
    IF partial.form = "fn" THEN
        LET nextPartial == Call(partial, prevSlice) IN
        IF nextPartial.t = "throw" THEN nextPartial
        ELSE [t |-> "return", v |-> (key :> SpreadMaybe(prevSlice, nextPartial.v))]
    ELSE [t |-> "return", v |-> (key :> Spread(prevSlice, partial.rec))]

\* scopedSet of the store-building form
storeScopedSet(w, key, partial) ==
    LET next == storeTransition(key, partial, w.state) IN
    IF next.t = "throw" THEN [w EXCEPT !.thrown = TRUE, !.error = next.error]
    ELSE setState(w, next.v, "undefined", "undefined")

\* fullGet answering with the state captured during construction
fullGet_cached(w) == initialState

\* fullGet: () => api.getState()
fullGet(w) == getState(w)

-----------------------------------------------------------------------------
(* State machine *)

World == [calls |-> calls, commits |-> commits, error |-> "none",
          setArgs |-> setArgs, state |-> state, thrown |-> FALSE]

NoCall == [op |-> "none"]

InitWith(vs, orders) ==
    /\ variant \in vs
    /\ keys \in orders
    /\ pc = "loop"
    /\ i = 1
    /\ initialState = EmptyObject
    /\ created = << >>
    /\ binding = EmptyObject
    /\ state = Undefined
    /\ listeners = {}
    /\ calls = [l \in Listeners |-> << >>]
    /\ commits = 0
    /\ setArgs = [name |-> "none", replace |-> "none"]
    /\ ncalls = 0
    /\ applied = [k \in Keys |-> << >>]
    /\ last = NoCall
    /\ layers = << >>
    /\ seen = << >>
    /\ storage = Undefined
    /\ state2 = Undefined
    /\ api2 = 0
    /\ mw2 = "none"
    /\ heap = << >>
    /\ root = 0
    /\ held = [ref |-> 0]

Init == InitWith(Variants, {DefKeys})

\* CreateSlice with one `key` shared by the closures of every iteration
CreateSlice_sharedKey ==
    /\ pc = "loop"
    /\ i <= Len(keys)
    /\ LET key == keys[i] IN
        /\ initialState' = Spread(initialState, (key :> creator(key)))
        /\ created' = Append(created, key)
        /\ binding' = [k \in DOMAIN binding \cup {key} |-> key]
    /\ i' = i + 1
    /\ UNCHANGED <<variant, keys, pc, state, listeners, calls, commits,
                   setArgs, ncalls, applied, last>>
    /\ UNCHANGED ext

\* CreateSlice with the creator's record merged flat into initialState
CreateSlice_flat ==
    /\ pc = "loop"
    /\ i <= Len(keys)
    /\ LET key == keys[i] IN
        /\ initialState' = Spread(initialState, creator(key))
        /\ created' = Append(created, key)
        /\ binding' = Spread(binding, (key :> key))
    /\ i' = i + 1
    /\ UNCHANGED <<variant, keys, pc, state, listeners, calls, commits,
                   setArgs, ncalls, applied, last>>
    /\ UNCHANGED ext

\* one iteration of sliced's for-loop: bind scopedSet and fullGet to key, invoke
\* the creator with them, store what it returns
CreateSlice ==
    /\ pc = "loop"
    /\ i <= Len(keys)
    /\ LET key == keys[i] IN
        /\ initialState' = Spread(initialState, (key :> creator(key)))
        /\ created' = Append(created, key)
        /\ binding' = Spread(binding, (key :> key))
    /\ i' = i + 1
    /\ UNCHANGED <<variant, keys, pc, state, listeners, calls, commits,
                   setArgs, ncalls, applied, last>>
    /\ UNCHANGED ext

\* the loop is over: the engine takes initialState as its state
CreateStore ==
    /\ pc = "loop"
    /\ i > Len(keys)
    /\ state' = initialState
    /\ pc' = "ready"
    /\ UNCHANGED <<variant, keys, i, initialState, created, binding, listeners,
                   calls, commits, setArgs, ncalls, applied, last>>
    /\ UNCHANGED ext

\* what sliced and the subscriptions have built; no scoped-set call changes it
built == <<variant, keys, pc, i, initialState, created, binding, listeners>>

\* the call of slice k's scoped set with arg has left the store as w
Outcome(k, arg, w) ==
    /\ ncalls' = ncalls + 1
    /\ state' = w.state
    /\ calls' = w.calls
    /\ commits' = w.commits
    /\ setArgs' = w.setArgs
    /\ applied' = IF w.thrown THEN applied
                  ELSE [applied EXCEPT ![k] = Append(@, arg)]

\* slice k's scoped set is called with partial; the history (applied, last)
\* records the argument field by field, as a value of its own
Set(k, partial, max) ==
    /\ pc = "ready"
    /\ k \in DOMAIN binding
    /\ LET w == IF variant = "creator" THEN scopedSet(World, binding[k], partial)
                ELSE storeScopedSet(World, binding[k], partial)
           arg == [f \in DOMAIN partial |-> partial[f]]
       IN /\ ncalls < max
          /\ Outcome(k, arg, w)
          /\ last' = [error |-> w.error, key |-> k, op |-> "set",
                      partial |-> arg, thrown |-> w.thrown]
    /\ UNCHANGED built
    /\ UNCHANGED ext

\* auth.login(name): set({ user: name })
Login(max) == \E name \in Names : Set("auth", RecordForm([user |-> name]), max)

\* cart.add(item): set(s => ({ items: [...s.items, item] }))
CartAdd(max) == \E item \in Items : Set("cart", PushUpdater(item), max)

\* counter.inc(): set(s => ({ count: s.count + 1 }))
Inc(max) == Set("counter", IncUpdater(1), max)

\* counter.add(n): set(s => ({ count: s.count + n }))
Add(max) == \E n \in Amounts : Set("counter", IncUpdater(n), max)

\* a scoped set called with a record naming a field the slice does not have
SetExtra(max) ==
    \E k \in Keys, v \in ExtraVals : Set(k, RecordForm([extra |-> v]), max)

\* a scoped set called with an updater that returns nothing
SetVoid(max) == \E k \in Keys : Set(k, VoidUpdater, max)

\* a scoped set called with an updater that returns {}
SetEmpty(max) == \E k \in Keys : Set(k, EmptyUpdater, max)

\* a scoped set called with an updater that throws
SetThrow(max) == \E k \in Keys : Set(k, ThrowUpdater, max)

\* slice k's creator calls the get it was handed
Get ==
    /\ pc = "ready"
    /\ \E k \in DOMAIN binding :
         last' = [key |-> k, op |-> "get", value |-> fullGet(World)]
    /\ UNCHANGED <<variant, keys, pc, i, initialState, created, binding, state,
                   listeners, calls, commits, setArgs, ncalls, applied>>
    /\ UNCHANGED ext

\* cart.checkout()
Checkout ==
    /\ pc = "ready"
    /\ {"auth", "cart"} \subseteq DOMAIN binding
    /\ LET user == fullGet(World).auth.user IN
         last' = IF Falsy(user)
                 THEN [error |-> "Not logged in", op |-> "checkout",
                       thrown |-> TRUE]
                 ELSE [bought |-> Len(fullGet(World).cart.items),
                       op |-> "checkout", thrown |-> FALSE, user |-> user]
    /\ UNCHANGED <<variant, keys, pc, i, initialState, created, binding, state,
                   listeners, calls, commits, setArgs, ncalls, applied>>
    /\ UNCHANGED ext

\* useStore.subscribe(listener)
Subscribe ==
    /\ pc = "ready"
    /\ \E l \in Listeners \ listeners : listeners' = listeners \cup {l}
    /\ UNCHANGED <<variant, keys, pc, i, initialState, created, binding, state,
                   calls, commits, setArgs, ncalls, applied, last>>
    /\ UNCHANGED ext

Next ==
    \/ CreateSlice
    \/ CreateStore
    \/ Login(MaxCalls)
    \/ CartAdd(MaxCalls)
    \/ Inc(MaxCalls)
    \/ Add(MaxCalls)
    \/ SetExtra(MaxCalls)
    \/ SetVoid(MaxCalls)
    \/ SetEmpty(MaxCalls)
    \/ SetThrow(MaxCalls)
    \/ Get
    \/ Checkout

Spec == Init /\ [][Next]_vars

\* The store with listeners subscribed to it.
NextSub ==
    \/ CreateSlice
    \/ CreateStore
    \/ Subscribe
    \/ Login(MaxSubCalls)
    \/ Inc(MaxSubCalls)
    \/ SetVoid(MaxSubCalls)
    \/ SetThrow(MaxSubCalls)

SpecSub == Init /\ [][NextSub]_vars

\* Construction over every definitions object.
InitCons == InitWith(Variants, KeyOrders)

NextCons ==
    \/ CreateSlice
    \/ CreateStore
    \/ Login(MaxSubCalls)
    \/ Inc(MaxSubCalls)
    \/ SetVoid(MaxSubCalls)
    \/ Get

SpecCons == InitCons /\ [][NextCons]_vars

-----------------------------------------------------------------------------
(* A second store built from the same definitions *)

\* sliced run from start to end: the for-loop over the keys ks, from the
\* accumulator acc
RECURSIVE Build(_, _)
Build(ks, acc) ==
    IF ks = << >> THEN acc
    ELSE Build(Tail(ks), Spread(acc, (Head(ks) :> creator(Head(ks)))))

\* the engine of the second store
World2 == [calls |-> [l \in Listeners |-> << >>], commits |-> 0, error |-> "none",
           setArgs |-> setArgs, state |-> state2, thrown |-> FALSE]

\* the engine the closures of the second store reach
Reached2 == IF api2 = 1 THEN World ELSE World2

\* Construct2 with the closures reaching the engine of the first store
Construct2_sharedApi(mw) ==
    /\ pc = "ready"
    /\ api2 = 0
    /\ mw # "none" => variant = "creator"
    /\ api2' = 1
    /\ mw2' = mw
    /\ state2' = Build(keys, EmptyObject)
    /\ UNCHANGED <<built, state, calls, commits, setArgs, ncalls, applied, last>>
    /\ UNCHANGED <<layers, seen, storage, heap, root, held>>

\* create(sliced(definitions)) a second time: the closures of this run reach
\* the api this run was handed
Construct2(mw) ==
    /\ pc = "ready"
    /\ api2 = 0
    /\ mw # "none" => variant = "creator"
    /\ api2' = 2
    /\ mw2' = mw
    /\ state2' = Build(keys, EmptyObject)
    /\ UNCHANGED <<built, state, calls, commits, setArgs, ncalls, applied, last>>
    /\ UNCHANGED <<layers, seen, storage, heap, root, held>>

\* slice k's scoped set of the second store is called with partial
Set2(k, partial, max) ==
    /\ api2 # 0
    /\ k \in DOMAIN binding
    /\ ncalls < max
    /\ LET w == IF variant = "creator" THEN scopedSet(Reached2, binding[k], partial)
                ELSE storeScopedSet(Reached2, binding[k], partial)
           arg == [f \in DOMAIN partial |-> partial[f]]
       IN /\ ncalls' = ncalls + 1
          /\ IF api2 = 1 THEN state' = w.state /\ state2' = state2
                         ELSE state2' = w.state /\ state' = state
          /\ last' = [error |-> w.error, key |-> k, op |-> "set2",
                      partial |-> arg, thrown |-> w.thrown]
    /\ UNCHANGED <<built, calls, commits, setArgs, applied>>
    /\ UNCHANGED <<layers, seen, storage, api2, mw2, heap, root, held>>

\* store2.getState().auth.login(name)
Login2(max) == \E name \in Names : Set2("auth", RecordForm([user |-> name]), max)

\* store2.getState().counter.inc()
Inc2(max) == \E n \in {1} : Set2("counter", IncUpdater(n), max)

\* a slice creator of the second store calls the get it was handed
Get2 ==
    /\ api2 # 0
    /\ last' = [op |-> "get2", value |-> fullGet(Reached2)]
    /\ UNCHANGED <<built, state, calls, commits, setArgs, ncalls, applied>>
    /\ UNCHANGED ext

\* Two stores over the same definitions.
NextTwo ==
    \/ CreateSlice
    \/ CreateStore
    \/ Construct2("none")
    \/ Login(MaxSubCalls)
    \/ Inc(MaxSubCalls)
    \/ Login2(MaxSubCalls)
    \/ Inc2(MaxSubCalls)
    \/ Get
    \/ Get2

SpecTwo == Init /\ [][NextTwo]_vars

-----------------------------------------------------------------------------
(* Actions that call a scoped set and the get in one call chain *)

\* the fields fs of rec that rec has (a field it lacks reads as undefined)
Pick(rec, fs) == [f \in fs \cap DOMAIN rec |-> rec[f]]

\* slice a's action: set({ x: 1 }), then read get()[b].y
ActA(max) ==
    /\ pc = "ready"
    /\ ncalls < max
    /\ \E a \in DOMAIN binding : \E b \in DOMAIN binding \ {a} :
         LET partial == RecordForm([x |-> 1])
             w == IF variant = "creator" THEN scopedSet(World, binding[a], partial)
                  ELSE storeScopedSet(World, binding[a], partial)
             arg == [f \in DOMAIN partial |-> partial[f]]
         IN /\ Outcome(a, arg, w)
            /\ last' = [error |-> w.error, key |-> a, op |-> "set",
                        partial |-> arg, read |-> Pick(fullGet(w)[b], {"y"}),
                        reads |-> b, thrown |-> w.thrown]
    /\ UNCHANGED built
    /\ UNCHANGED ext

\* slice b's action: set({ y: 2 })
ActB(max) == \E b \in Keys : Set(b, RecordForm([y |-> 2]), max)

\* Actions of two slices called one after the other.
NextRe ==
    \/ CreateSlice
    \/ CreateStore
    \/ ActA(MaxSubCalls)
    \/ ActB(MaxSubCalls)
    \/ Inc(MaxSubCalls)

SpecRe == Init /\ [][NextRe]_vars

-----------------------------------------------------------------------------
(* A scoped set called from inside the updater of another scoped-set call *)

\* s => { set2(inner); return ret }, set2 being the scoped set of slice k2
NestUpdater(k2, inner, ret) ==
    [form |-> "fn", inner |-> inner, key |-> k2, name |-> "nest", ret |-> ret]

\* nestedScopedSet on an engine that merges what the transition returns into
\* the state it held when it called the transition
nestedScopedSet_stale(w, key, partial) ==
    LET prevSlice == w.state[key]
        w1 == IF variant = "creator"
              THEN scopedSet(w, partial.key, partial.inner)
              ELSE storeScopedSet(w, partial.key, partial.inner)
        nextState == (key :> Spread(prevSlice, partial.ret))
    IN IF variant = "creator"
       THEN setState([w1 EXCEPT !.state = w.state], nextState, "false", key \o "/set")
       ELSE setState([w1 EXCEPT !.state = w.state], nextState, "undefined", "undefined")

\* scopedSet called with a NestUpdater: the engine calls the transition with
\* its state, the transition reads prevSlice and calls the updater, the
\* updater runs the inner scoped set to its end and returns, and the engine
\* merges what the transition returns into the state it then holds
nestedScopedSet(w, key, partial) ==
    LET prevSlice == w.state[key]
        w1 == IF variant = "creator"
              THEN scopedSet(w, partial.key, partial.inner)
              ELSE storeScopedSet(w, partial.key, partial.inner)
        nextState == (key :> Spread(prevSlice, partial.ret))
    IN IF variant = "creator"
       THEN setState(w1, nextState, "false", key \o "/set")
       ELSE setState(w1, nextState, "undefined", "undefined")

\* slice k's scoped set is called with an updater that calls slice k2's
\* scoped set with { y: 2 } and returns { x: 1 }
SetNested(max) ==
    /\ pc = "ready"
    /\ ncalls < max
    /\ \E k \in DOMAIN binding, k2 \in DOMAIN binding :
         LET inner == RecordForm([y |-> 2])
             partial == NestUpdater(binding[k2], inner, [x |-> 1])
             w == nestedScopedSet(World, binding[k], partial)
             arg == [f \in DOMAIN partial |-> partial[f]]
         IN /\ ncalls' = ncalls + 1
            /\ state' = w.state
            /\ calls' = w.calls
            /\ commits' = w.commits
            /\ setArgs' = w.setArgs
            /\ applied' =
                 LET a1 == [applied EXCEPT ![k2] = Append(@, inner)]
                 IN [a1 EXCEPT ![k] = Append(@, RecordForm(partial.ret))]
            /\ last' = [error |-> w.error, inner |-> k2, key |-> k, op |-> "set",
                        partial |-> arg, thrown |-> w.thrown]
    /\ UNCHANGED built
    /\ UNCHANGED ext

\* Scoped sets nested in updaters, among other calls.
NextNest ==
    \/ CreateSlice
    \/ CreateStore
    \/ SetNested(MaxSubCalls)
    \/ Login(MaxSubCalls)
    \/ Inc(MaxSubCalls)

SpecNest == Init /\ [][NextNest]_vars

\* Scoped sets nested in updaters, on a store with listeners.
NextNestSub ==
    \/ CreateSlice
    \/ CreateStore
    \/ Subscribe
    \/ SetNested(MaxSubCalls)
    \/ Login(MaxSubCalls)
    \/ Inc(MaxSubCalls)

SpecNestSub == Init /\ [][NextNestSub]_vars

-----------------------------------------------------------------------------
(* Objects and references: the state object, the slice records it points to *)

\* the value of the state object at reference r: every key with its record
Deref(h, r) == [k \in DOMAIN h[r] |-> h[h[r][k]]]

\* the objects the construction has made: one record per creator, in key
\* order, and initialState pointing to them
Allocate(ks, st) ==
    [j \in 1..(Len(ks) + 1) |->
        IF j <= Len(ks) THEN st[ks[j]]
        ELSE [k \in {ks[n] : n \in 1..Len(ks)} |->
                 CHOOSE n \in 1..Len(ks) : ks[n] = k]]

\* the commit writing into the state object itself: Object.assign(state, nextState)
commitObject_inPlace(h, r, nextState) ==
    IF IsObject(nextState)
    THEN LET key == CHOOSE k \in DOMAIN nextState : TRUE
             h1 == Append(h, nextState[key])
         IN [heap |-> [h1 EXCEPT ![r] = Spread(@, (key :> Len(h1)))], root |-> r]
    ELSE [heap |-> h, root |-> r]

\* the commit of what the transition returned: { [key]: { ...prevSlice, ...result } }
\* is a new record in a new object, and Object.assign({}, state, nextState)
\* a new state object holding the references of state and that of the new record
commitObject(h, r, nextState) ==
    IF IsObject(nextState)
    THEN LET key == CHOOSE k \in DOMAIN nextState : TRUE
             h1 == Append(h, nextState[key])
         IN [heap |-> Append(h1, Spread(h[r], (key :> Len(h1)))),
             root |-> Len(h1) + 1]
    ELSE [heap |-> Append(h, h[r]), root |-> Len(h) + 1]

\* the loop is over: the engine takes the object initialState as its state
CreateStoreHeap ==
    /\ pc = "loop"
    /\ i > Len(keys)
    /\ state' = initialState
    /\ pc' = "ready"
    /\ heap' = Allocate(keys, initialState)
    /\ root' = Len(keys) + 1
    /\ UNCHANGED <<variant, keys, i, initialState, created, binding, listeners,
                   calls, commits, setArgs, ncalls, applied, last>>
    /\ UNCHANGED <<layers, seen, storage, state2, api2, mw2, held>>

\* slice k's scoped set is called with partial; the transition is handed the
\* state object and what it returns is committed
SetHeap(k, partial, max) ==
    /\ pc = "ready"
    /\ root # 0
    /\ k \in DOMAIN binding
    /\ ncalls < max
    /\ LET prev == Deref(heap, root)
           next == IF variant = "creator" THEN transition(binding[k], partial, prev)
                   ELSE storeTransition(binding[k], partial, prev)
           w == IF variant = "creator" THEN scopedSet(World, binding[k], partial)
                ELSE storeScopedSet(World, binding[k], partial)
           arg == [f \in DOMAIN partial |-> partial[f]]
           c == commitObject(heap, root, next.v)
       IN /\ Outcome(k, arg, w)
          /\ last' = [error |-> w.error, key |-> k, op |-> "set",
                      partial |-> arg, thrown |-> w.thrown]
          /\ heap' = IF next.t = "throw" THEN heap ELSE c.heap
          /\ root' = IF next.t = "throw" THEN root ELSE c.root
    /\ UNCHANGED built
    /\ UNCHANGED <<layers, seen, storage, state2, api2, mw2, held>>

\* auth.login(name)
LoginHeap(max) == \E name \in Names : SetHeap("auth", RecordForm([user |-> name]), max)

\* counter.inc()
IncHeap(max) == \E n \in {1} : SetHeap("counter", IncUpdater(n), max)

\* a scoped set called with an updater that returns nothing, or throws
SetOtherHeap(max) ==
    \E k \in Keys, fn \in {VoidUpdater, ThrowUpdater} : SetHeap(k, fn, max)

\* a reader calls get() and keeps what it returned: the reference of the state
\* object, the references of the records in it, and the values it saw
Hold ==
    /\ pc = "ready"
    /\ root # 0
    /\ held' = [records |-> heap[root], ref |-> root, value |-> Deref(heap, root)]
    /\ UNCHANGED <<built, state, calls, commits, setArgs, ncalls, applied, last>>
    /\ UNCHANGED <<layers, seen, storage, state2, api2, mw2, heap, root>>

\* The store with its objects.
NextHeap ==
    \/ CreateSlice
    \/ CreateStoreHeap
    \/ LoginHeap(MaxSubCalls)
    \/ IncHeap(MaxSubCalls)
    \/ SetOtherHeap(MaxSubCalls)
    \/ Hold

SpecHeap == Init /\ [][NextHeap]_vars

-----------------------------------------------------------------------------
(* A creator that calls the scoped set or the get it is handed, at once *)

TypeError == "TypeError"

\* scopedSet called while sliced's loop runs.  State-creator form: the engine
\* calls the transition with its state, still undefined, and prev[key] throws.
\* Store-building form: `store` is still undefined and store.setState throws.
earlyScopedSet(w, key, partial) ==
    IF variant = "store" \/ ~IsObject(w.state)
    THEN [w EXCEPT !.thrown = TRUE, !.error = TypeError]
    ELSE scopedSet(w, key, partial)

\* fullGet called while sliced's loop runs.  State-creator form:
\* api.getState() returns the engine's state, still undefined.  Store-building
\* form: `store` is still undefined and store.getState throws.
earlyFullGet(w) ==
    IF variant = "store" THEN [error |-> TypeError, t |-> "throw"]
    ELSE [t |-> "return", v |-> fullGet(w)]

\* one iteration of sliced's for-loop whose creator calls, before it returns,
\* the scoped set (use = "set") or the get (use = "get") it was handed
CreateSliceEarly ==
    /\ pc = "loop"
    /\ i <= Len(keys)
    /\ \E use \in {"get", "set"} :
         LET key == keys[i]
             s == earlyScopedSet(World, key, RecordForm([x |-> 1]))
             g == earlyFullGet(World)
             thrown == IF use = "set" THEN s.thrown ELSE g.t = "throw"
         IN /\ created' = Append(created, key)
            /\ binding' = Spread(binding, (key :> key))
            /\ state' = IF use = "set" THEN s.state ELSE state
            /\ IF thrown
               THEN /\ pc' = "fault"
                    /\ last' = [error |-> TypeError, key |-> key, op |-> "create",
                                thrown |-> TRUE, use |-> use]
                    /\ UNCHANGED <<i, initialState>>
               ELSE /\ pc' = pc
                    /\ i' = i + 1
                    /\ initialState' = Spread(initialState, (key :> creator(key)))
                    /\ last' = [key |-> key, op |-> "create", thrown |-> FALSE,
                                use |-> use,
                                value |-> IF use = "get" THEN g.v ELSE Undefined]
    /\ UNCHANGED <<variant, keys, listeners, calls, commits, setArgs, ncalls, applied>>
    /\ UNCHANGED ext

\* Construction with creators that use their capabilities at once.
NextEarly ==
    \/ CreateSlice
    \/ CreateSliceEarly
    \/ CreateStore
    \/ Login(MaxSubCalls)
    \/ Inc(MaxSubCalls)
    \/ Get

SpecEarly == InitCons /\ [][NextEarly]_vars

-----------------------------------------------------------------------------
(* The store wrapped by the immer middleware *)

ImmerError == "ImmerError"

\* produce(base, transition): the transition runs on a draft of the whole
\* state.  When it returns nothing the result is the draft with its edits (the
\* base itself when nothing was edited); when it returns a value and has edited
\* nothing the result is that value; when it does both immer throws.
immerProduce(key, partial, base) ==
    LET next == transition(key, partial, base)
        draft == IF partial.form = "fn"
                 THEN [base EXCEPT ![key] = DraftAfter(partial, base[key])]
                 ELSE base
    IN IF next.t = "throw" THEN next
       ELSE IF ~IsObject(next.v)
            THEN [same |-> draft = base, t |-> "return", v |-> draft]
       ELSE IF draft # base THEN [error |-> ImmerError, t |-> "throw"]
       ELSE [same |-> FALSE, t |-> "return", v |-> next.v]

\* scopedSet on a store created with immer(sliced(...)): api.setState is
\* immer's, which hands produce(transition) to the engine's setState; the
\* engine commits nothing when it is handed back the state it holds
immerScopedSet(w, key, partial) ==
    LET next == immerProduce(key, partial, w.state) IN
    IF next.t = "throw" THEN [w EXCEPT !.thrown = TRUE, !.error = next.error]
    ELSE IF next.same THEN w
    ELSE setState(w, next.v, "false", key \o "/set")

\* slice k's scoped set is called with partial on the first store (no
\* middleware) and with draft on the second (immer)
SetBoth(k, partial, draft, max) ==
    /\ pc = "ready"
    /\ api2 = 2
    /\ mw2 = "immer"
    /\ k \in DOMAIN binding
    /\ ncalls < max
    /\ LET w == scopedSet(World, binding[k], partial)
           w2 == immerScopedSet(World2, binding[k], draft)
           arg == [f \in DOMAIN partial |-> partial[f]]
           arg2 == [f \in DOMAIN draft |-> draft[f]]
       IN /\ Outcome(k, arg, w)
          /\ state2' = w2.state
          /\ last' = [draft |-> arg2, error |-> w.error, error2 |-> w2.error,
                      key |-> k, op |-> "set", partial |-> arg,
                      thrown |-> w.thrown, thrown2 |-> w2.thrown]
    /\ UNCHANGED built
    /\ UNCHANGED <<layers, seen, storage, api2, mw2, heap, root, held>>

\* counter.inc() / counter.add(n): s => ({ count: s.count + n }) and s => { s.count += n }
IncBoth(max) ==
    \E n \in {1} \cup Amounts : SetBoth("counter", IncUpdater(n), DraftInc(n), max)

\* todo.add(item): s => ({ items: [...s.items, item] }) and s => { s.items.push(item) }
PushBoth(max) ==
    \E item \in Items : SetBoth("cart", PushUpdater(item), DraftPush(item), max)

\* the same partial-returning updater, record or no-op on both stores
SameBoth(max) ==
    \/ \E n \in {1} : SetBoth("counter", IncUpdater(n), IncUpdater(n), max)
    \/ \E name \in Names :
         SetBoth("auth", RecordForm([user |-> name]), RecordForm([user |-> name]), max)
    \/ \E k \in Keys : SetBoth(k, VoidUpdater, VoidUpdater, max)

InitCreator == InitWith({"creator"}, {DefKeys})

\* A store without middleware and a store with immer, called alike.
NextImmer ==
    \/ CreateSlice
    \/ CreateStore
    \/ Construct2("immer")
    \/ IncBoth(MaxCalls)
    \/ PushBoth(MaxCalls)
    \/ SameBoth(MaxCalls)

SpecImmer == InitCreator /\ [][NextImmer]_vars

-----------------------------------------------------------------------------
(* Layers that have replaced the setState and getState of the api *)

\* the fields of the slice records that hold functions
FunctionFields == {"add", "checkout", "inc", "login"}

\* JSON.parse(JSON.stringify(st)) of a composite state: fields holding
\* functions are left out, null, strings, numbers and arrays are kept
Stringify(st) ==
    [k \in DOMAIN st |-> [f \in DOMAIN st[k] \ FunctionFields |-> st[k][f]]]

\* persist's default merge of what was stored into the state the initializer
\* returned: { ...currentState, ...persistedState }
merge(persistedState, currentState) == SpreadMaybe(currentState, persistedState)

\* the layers a middleware stack may put on the api
Layers == {"devtools", "logger"}

\* a call through a function captured before any layer was put on the api
Entered_captured(ls, op, replace, name) == << >>

\* api.setState(...) / api.getState(), looked up on the api when the call is
\* made: the call enters every layer on the api, the last put on first, each
\* handing it on to the one below, down to the engine
Entered(ls, op, replace, name) ==
    [j \in 1..Len(ls) |->
        [layer |-> ls[Len(ls) + 1 - j], name |-> name, op |-> op,
         replace |-> replace]]

\* a layer replaces api.setState and api.getState by functions of its own
\* that call the ones it found (state-creator form: the api is the caller's)
Wrap ==
    /\ variant = "creator"
    /\ \E l \in Layers \ {layers[j] : j \in DOMAIN layers} :
         layers' = Append(layers, l)
    /\ UNCHANGED <<built, state, calls, commits, setArgs, ncalls, applied, last>>
    /\ UNCHANGED <<seen, storage, state2, api2, mw2, heap, root, held>>

\* the arguments after the transition with the action label without the key
handed_noKey(key) == [name |-> "set", replace |-> "false"]

\* the arguments scopedSet hands to api.setState after the transition:
\* false, `${String(key)}/set`
handed(key) == [name |-> key \o "/set", replace |-> "false"]

\* the arguments after the transition in the store-building form: none
storeHanded == [name |-> "undefined", replace |-> "undefined"]

\* slice k's scoped set is called with partial, the api carrying layers
SetVia(k, partial, max) ==
    /\ pc = "ready"
    /\ k \in DOMAIN binding
    /\ ncalls < max
    /\ LET w == IF variant = "creator" THEN scopedSet(World, binding[k], partial)
                ELSE storeScopedSet(World, binding[k], partial)
           arg == [f \in DOMAIN partial |-> partial[f]]
       IN /\ Outcome(k, arg, w)
          /\ last' = [error |-> w.error, key |-> k, op |-> "set",
                      partial |-> arg, thrown |-> w.thrown]
          /\ LET a == IF variant = "creator" THEN handed(binding[k])
                      ELSE storeHanded
                 e == Entered(layers, "set", a.replace, a.name)
             IN /\ seen' = seen \o e
                /\ storage' = IF ~w.thrown /\ \E j \in DOMAIN e : e[j].layer = "persist"
                               THEN Stringify(w.state)
                               ELSE storage
    /\ UNCHANGED built
    /\ UNCHANGED <<layers, state2, api2, mw2, heap, root, held>>

\* auth.login(name)
LoginVia(max) == \E name \in Names : SetVia("auth", RecordForm([user |-> name]), max)

\* counter.inc()
IncVia(max) == \E n \in {1} : SetVia("counter", IncUpdater(n), max)

\* a scoped set called with an updater that throws
ThrowVia(max) == \E k \in Keys : SetVia(k, ThrowUpdater, max)

\* slice k's creator calls the get it was handed, the api carrying layers
GetVia ==
    /\ pc = "ready"
    /\ Len(seen) < MaxSubCalls + MaxSubCalls
    /\ \E k \in DOMAIN binding :
         last' = [key |-> k, op |-> "get", value |-> fullGet(World)]
    /\ seen' = seen \o Entered(layers, "get", "none", "none")
    /\ UNCHANGED <<built, state, calls, commits, setArgs, ncalls, applied>>
    /\ UNCHANGED <<layers, storage, state2, api2, mw2, heap, root, held>>

\* cart.add(item), with the updater of the todo slice
AddVia(max) == \E x \in Items : SetVia("cart", PushUpdater(x), max)

\* persist(sliced(definitions), { name, storage }) run by create: persist
\* replaces api.setState by a function that sets and then writes the state
\* to the storage, before it runs the initializer
Persist ==
    /\ variant = "creator"
    /\ pc = "loop"
    /\ i = 1
    /\ layers = << >>
    /\ layers' = <<"persist">>
    /\ UNCHANGED <<built, state, calls, commits, setArgs, ncalls, applied, last>>
    /\ UNCHANGED <<seen, storage, state2, api2, mw2, heap, root, held>>

\* the initializer under persist has returned: persist merges what the
\* storage holds into it, the engine takes the result as its state, and the
\* storage is written or left as it is (releases of persist differ)
CreateStorePersist ==
    /\ pc = "loop"
    /\ i > Len(keys)
    /\ layers = <<"persist">>
    /\ state' = merge(storage, initialState)
    /\ storage' \in {storage, Stringify(state')}
    /\ pc' = "ready"
    /\ UNCHANGED <<variant, keys, i, initialState, created, binding, listeners,
                   calls, commits, setArgs, ncalls, applied, last>>
    /\ UNCHANGED <<layers, seen, state2, api2, mw2, heap, root, held>>

\* a second create(persist(sliced(definitions), { name, storage })) over the
\* same storage, once its rehydration has completed
Rehydrate2 ==
    /\ pc = "ready"
    /\ api2 = 0
    /\ layers = <<"persist">>
    /\ api2' = 2
    /\ mw2' = "persist"
    /\ state2' = merge(storage, Build(keys, EmptyObject))
    /\ storage' \in {storage, Stringify(state2')}
    /\ UNCHANGED <<built, state, calls, commits, setArgs, ncalls, applied, last>>
    /\ UNCHANGED <<layers, seen, heap, root, held>>

\* A store under persist, and a second one built over its storage.
NextPersist ==
    \/ Persist
    \/ CreateSlice
    \/ CreateStorePersist
    \/ LoginVia(MaxSubCalls)
    \/ IncVia(MaxSubCalls)
    \/ AddVia(MaxSubCalls)
    \/ ThrowVia(MaxSubCalls)
    \/ Rehydrate2

SpecPersist == InitCreator /\ [][NextPersist]_vars

\* The store under a stack of layers.
NextLayers ==
    \/ CreateSlice
    \/ CreateStore
    \/ Wrap
    \/ LoginVia(MaxSubCalls)
    \/ IncVia(MaxSubCalls)
    \/ ThrowVia(MaxSubCalls)
    \/ GetVia

SpecLayers == Init /\ [][NextLayers]_vars

-----------------------------------------------------------------------------
(* The same definitions under another order of their keys *)

\* the keys of ks in the order of DefKeys
Sorted(ks) == SelectSeq(DefKeys, LAMBDA k : k \in {ks[j] : j \in DOMAIN ks})

\* sliced run from start to end over the keys ks: for each key, the key the
\* scopedSet made in its iteration is bound to (`const key` of the for-of)
Bindings(ks) == [k \in {ks[j] : j \in DOMAIN ks} |-> k]

\* create(sliced(definitions)) a second time, the definitions object holding
\* the same creators with its keys in the order of DefKeys
ConstructSorted ==
    /\ pc = "ready"
    /\ ncalls = 0
    /\ api2 = 0
    /\ api2' = 2
    /\ mw2' = "none"
    /\ state2' = Build(Sorted(keys), EmptyObject)
    /\ UNCHANGED <<built, state, calls, commits, setArgs, ncalls, applied, last>>
    /\ UNCHANGED <<layers, seen, storage, heap, root, held>>

\* slice k's scoped set is called with partial on both stores
SetPair(k, partial, max) ==
    /\ pc = "ready"
    /\ api2 = 2
    /\ mw2 = "none"
    /\ k \in DOMAIN binding
    /\ ncalls < max
    /\ LET b2 == Bindings(Sorted(keys))
           w == IF variant = "creator" THEN scopedSet(World, binding[k], partial)
                ELSE storeScopedSet(World, binding[k], partial)
           w2 == IF variant = "creator" THEN scopedSet(World2, b2[k], partial)
                 ELSE storeScopedSet(World2, b2[k], partial)
           arg == [f \in DOMAIN partial |-> partial[f]]
       IN /\ Outcome(k, arg, w)
          /\ state2' = w2.state
          /\ last' = [error |-> w.error, error2 |-> w2.error, key |-> k,
                      op |-> "set", partial |-> arg, thrown |-> w.thrown,
                      thrown2 |-> w2.thrown]
    /\ UNCHANGED built
    /\ UNCHANGED <<layers, seen, storage, api2, mw2, heap, root, held>>

\* auth.login(name) on both
LoginPair(max) == \E name \in Names : SetPair("auth", RecordForm([user |-> name]), max)

\* counter.inc() on both
IncPair(max) == \E n \in {1} : SetPair("counter", IncUpdater(n), max)

\* cart.add(item) on both
AddPair(max) == \E item \in Items : SetPair("cart", PushUpdater(item), max)

\* a scoped set called with an updater that throws, on both
ThrowPair(max) == \E k \in Keys : SetPair(k, ThrowUpdater, max)

\* Two stores over the same creators, the keys of the definitions in any
\* order for the first and in the order of DefKeys for the second.
NextOrder ==
    \/ CreateSlice
    \/ CreateStore
    \/ ConstructSorted
    \/ LoginPair(MaxSubCalls)
    \/ IncPair(MaxSubCalls)
    \/ AddPair(MaxSubCalls)
    \/ ThrowPair(MaxSubCalls)

SpecOrder == InitCons /\ [][NextOrder]_vars

-----------------------------------------------------------------------------
(* Properties *)

\* the keys of the definitions object
KeySet == {keys[j] : j \in DOMAIN keys}

\* a step in which the client calls a scoped set
SetStep == ncalls' = ncalls + 1

\* old overridden by the partial record u; an updater's undefined overrides nothing
Override(old, u) ==
    IF IsObject(u)
    THEN [f \in DOMAIN old \cup DOMAIN u |-> IF f \in DOMAIN u THEN u[f] ELSE old[f]]
    ELSE old

\* the partial a scoped-set argument stands for, given the record it is applied to
Given(partial, rec) ==
    IF partial.form = "record" THEN partial.rec ELSE Call(partial, rec).v

\* rec after the partials ps have been merged into it one after the other
RECURSIVE FoldSlice(_, _)
FoldSlice(rec, ps) ==
    IF ps = << >> THEN rec
    ELSE FoldSlice(Override(rec, Given(Head(ps), rec)), Tail(ps))

Expected(k) == FoldSlice(creator(k), applied[k])

\* the sum of the amounts of the counter updaters in ps
RECURSIVE SumOf(_)
SumOf(ps) ==
    IF ps = << >> THEN 0
    ELSE (IF Head(ps).form = "fn" /\ Head(ps).name = "inc" THEN Head(ps).n ELSE 0)
         + SumOf(Tail(ps))

\* the items of the cart updaters in ps, in order
RECURSIVE ItemsOf(_)
ItemsOf(ps) ==
    IF ps = << >> THEN << >>
    ELSE (IF Head(ps).form = "fn" /\ Head(ps).name = "push"
          THEN <<Head(ps).item>> ELSE << >>) \o ItemsOf(Tail(ps))

\* C1: a call of slice A's scoped set (record or updater form, returning or
\* throwing) leaves the record at every other key as it was, also when both
\* records have a field of the same name.
C1_NamespaceIsolation ==
    [][SetStep =>
         \A b \in KeySet \ {last'.key} :
            b \in DOMAIN state' /\ state'[b] = state[b]]_vars

C1_Witness ==
    /\ last.op = "set" /\ last.key = "cart" /\ ~last.thrown
    /\ last.partial = RecordForm([extra |-> 2])
    /\ state.cart = [add |-> "cart.add", checkout |-> "cart.checkout",
                     extra |-> 2, items |-> <<"Widget">>]
    /\ state.auth = [extra |-> 1, login |-> "auth.login", user |-> Null]
    /\ state.counter = creator("counter")

\* C2: after slice k's scoped set is called with a partial record u, or an
\* updater returning u, the record at k has the fields of the prior record and
\* of u, the fields of u with u's values and the others with their prior values.
C2_MergeSemantics ==
    [][(SetStep /\ ~last'.thrown) =>
         LET k == last'.key
             u == Given(last'.partial, state[k])
         IN IsObject(u) =>
              /\ DOMAIN state'[k] = DOMAIN state[k] \cup DOMAIN u
              /\ \A f \in DOMAIN u : state'[k][f] = u[f]
              /\ \A f \in DOMAIN state[k] \ DOMAIN u :
                    state'[k][f] = state[k][f]]_vars

C2_Witness ==
    /\ last.op = "set" /\ last.key = "auth"
    /\ last.partial = RecordForm([extra |-> 1])
    /\ state.auth = [extra |-> 1, login |-> "auth.login", user |-> "Alice"]

\* C3: a call of the get handed to any slice returns the whole current state:
\* all keys, each holding the record its committed scoped-set calls have made.
C3_LatestStateRead ==
    last.op = "get" =>
        /\ DOMAIN last.value = KeySet
        /\ \A k \in KeySet : last.value[k] = Expected(k)

C3_Witness ==
    /\ last.op = "get" /\ last.key = "cart"
    /\ applied["auth"] = <<RecordForm([user |-> "Alice"])>>
    /\ last.value.auth.user = "Alice"
    /\ applied["counter"] = <<IncUpdater(1), VoidUpdater>>
    /\ last.value.counter.count = 1

\* C4: every updater receives its slice's record as the latest commit left it,
\* so each record is the fold of its own slice's calls in call order, however
\* calls to other slices are interleaved: the count is the sum of the amounts
\* added, the items are the items added, in order.
C4_NoLostUpdate ==
    pc = "ready" =>
        /\ \A k \in KeySet : state[k] = Expected(k)
        /\ state.counter.count = SumOf(applied["counter"])
        /\ state.cart.items = ItemsOf(applied["cart"])

C4_Witness ==
    /\ applied["counter"] = <<IncUpdater(1), IncUpdater(1)>>
    /\ applied["cart"] = <<PushUpdater("Widget")>>
    /\ last.op = "set" /\ last.key = "counter"
    /\ state.counter.count = 2
    /\ state.cart.items = <<"Widget">>

\* C5: once the store is built its state is an object whose keys are exactly
\* the keys of the definitions object, after any scoped-set calls (record,
\* updater returning a partial, updater returning nothing).
C5_KeySetInvariant ==
    pc = "ready" => IsObject(state) /\ DOMAIN state = KeySet

C5_Witness ==
    /\ pc = "ready" /\ keys = <<"counter", "auth">>
    /\ last.op = "set" /\ last.partial = VoidUpdater /\ last.key = "auth"
    /\ applied["counter"] = <<IncUpdater(1)>>
    /\ DOMAIN state = {"auth", "counter"}

\* C6: when the updater handed to a scoped set throws, the call throws that
\* error, the state is what it was at every key, the engine has committed
\* nothing and no listener has been called.
C6_AtomicOnFailure ==
    [][(SetStep /\ last'.partial.form = "fn"
          /\ Call(last'.partial, state[last'.key]).t = "throw") =>
         /\ last'.thrown
         /\ last'.error = Call(last'.partial, state[last'.key]).error
         /\ state' = state
         /\ commits' = commits
         /\ calls' = calls]_vars

C6_Witness ==
    /\ last.op = "set" /\ last.thrown /\ last.error = Boom
    /\ listeners = Listeners
    /\ commits = 1
    /\ state.counter.count = 1
    /\ Len(calls["l1"]) = 1

\* C7 as stated: every scoped-set call commits once and every subscribed
\* listener is called once with the state after the commit.
C7_EveryCallCommits ==
    [][SetStep =>
         /\ commits' = commits + 1
         /\ \A l \in listeners : calls'[l] = Append(calls[l], state')]_vars

\* C7, amended: every scoped-set call that returns commits once, and every
\* subscribed listener is called once, last, with the state after the commit;
\* no other listener is called.
C7_ReturningCallCommits ==
    [][(SetStep /\ ~last'.thrown) =>
         /\ commits' = commits + 1
         /\ \A l \in Listeners :
              calls'[l] = IF l \in listeners THEN Append(calls[l], state')
                          ELSE calls[l]]_vars

C7_Witness ==
    /\ listeners = Listeners
    /\ Len(calls["l1"]) = 2 /\ Len(calls["l2"]) = 1
    /\ calls["l1"][1].counter.count = 1 /\ calls["l1"][1].auth.user = Null
    /\ calls["l1"][2].counter.count = 1 /\ calls["l1"][2].auth.user = "Alice"
    /\ calls["l2"][1] = calls["l1"][2]
    /\ state = calls["l1"][2]

\* C8: the creators are invoked one after the other in the order of the keys,
\* each once and each with a scoped set bound to its own key; the engine gets
\* its state only after all of them, and none is invoked after construction.
C8_Construction ==
    /\ Len(created) <= Len(keys)
    /\ created = SubSeq(keys, 1, Len(created))
    /\ DOMAIN binding = {created[j] : j \in DOMAIN created}
    /\ \A k \in DOMAIN binding : binding[k] = k
    /\ (IsObject(state) \/ pc = "ready") => created = keys

C8_Witness ==
    /\ pc = "ready" /\ keys = <<"counter", "cart", "auth">>
    /\ created = <<"counter", "cart", "auth">>
    /\ ncalls = 2

\* C9: right after construction the state maps every key of the definitions
\* object to the record its creator returned, and holds nothing else.
C9_InitialState ==
    (IsObject(state) /\ ncalls = 0) =>
        /\ DOMAIN state = KeySet
        /\ \A k \in KeySet : state[k] = creator(k)

C9_Witness ==
    /\ pc = "ready" /\ ncalls = 0 /\ keys = <<"cart", "counter">>
    /\ state = [cart |-> [add |-> "cart.add", checkout |-> "cart.checkout",
                          items |-> << >>],
                counter |-> [add |-> "counter.add", count |-> 0,
                             inc |-> "counter.inc"]]

\* C10 as stated: checkout throws 'Not logged in' when auth.user is null and
\* succeeds, counting the committed cart items, whenever auth.user is not null.
C10_GuardOnNull ==
    last.op = "checkout" =>
        IF state.auth.user = Null
        THEN last.thrown /\ last.error = "Not logged in"
        ELSE ~last.thrown /\ last.bought = Len(ItemsOf(applied["cart"]))

\* C10, amended: checkout throws 'Not logged in' when auth.user is null or the
\* empty string, leaving the state as the committed calls made it; when login
\* has committed a non-empty name it succeeds for that user and counts the
\* cart items committed so far.
C10_GuardOnFalsy ==
    last.op = "checkout" =>
        /\ \A k \in KeySet : state[k] = Expected(k)
        /\ IF state.auth.user = Null \/ state.auth.user = ""
           THEN last.thrown /\ last.error = "Not logged in"
           ELSE /\ ~last.thrown
                /\ last.user = state.auth.user
                /\ last.bought = Len(ItemsOf(applied["cart"]))

C10_Witness ==
    /\ last.op = "checkout" /\ ~last.thrown
    /\ last.user = "Alice" /\ last.bought = 2
    /\ state.cart.items = <<"Widget", "Gadget">>

C12_ReentrantOrdering ==
    [][SetStep =>
         /\ "read" \in DOMAIN last' =>
               last'.read = IF \E j \in DOMAIN applied[last'.reads] :
                                  applied[last'.reads][j] = RecordForm([y |-> 2])
                            THEN [y |-> 2] ELSE EmptyObject
         /\ \A k \in KeySet :
               /\ (\E j \in DOMAIN applied'[k] :
                      applied'[k][j] = RecordForm([x |-> 1]))
                    => Pick(state'[k], {"x"}) = [x |-> 1]
               /\ (\E j \in DOMAIN applied'[k] :
                      applied'[k][j] = RecordForm([y |-> 2]))
                    => Pick(state'[k], {"y"}) = [y |-> 2]]_vars

C12_Witness ==
    /\ applied["auth"] = <<RecordForm([x |-> 1])>>
    /\ applied["cart"] = <<RecordForm([y |-> 2])>>
    /\ last.op = "set" /\ last.key = "cart"
    /\ Pick(state.auth, {"x"}) = [x |-> 1]
    /\ Pick(state.cart, {"y"}) = [y |-> 2]

\* the other order: B's action first, then A's, whose read returns 2
C12_WitnessRead ==
    /\ "read" \in DOMAIN last /\ last.key = "auth" /\ last.reads = "cart"
    /\ last.read = [y |-> 2]
    /\ Pick(state.auth, {"x"}) = [x |-> 1]

\* a step in which a scoped set is called with an updater that calls a scoped set
NestedStep == SetStep /\ "inner" \in DOMAIN last'

\* C13 as stated: when a scoped set is called from inside the updater of
\* another scoped-set call, for the same key or another, the state after the
\* outer commit holds both the inner update ({y: 2}) and the outer ({x: 1}).
C13_NestedBothKept ==
    [][NestedStep =>
         /\ Pick(state'[last'.inner], {"y"}) = [y |-> 2]
         /\ Pick(state'[last'.key], {"x"}) = [x |-> 1]]_vars

\* C13 for two different keys: both updates are in the state after the outer
\* commit, the other records are as they were, and the engine has committed twice.
C13_NestedOtherKey ==
    [][(NestedStep /\ last'.inner # last'.key) =>
         /\ state'[last'.inner] = Spread(state[last'.inner], [y |-> 2])
         /\ state'[last'.key] = Spread(state[last'.key], [x |-> 1])
         /\ \A k \in KeySet \ {last'.inner, last'.key} : state'[k] = state[k]
         /\ commits' = commits + 2]_vars

\* C13 for one key: the outer commit writes the record read before the inner
\* call, so the inner update is gone after it.
C13_NestedSameKeyLost ==
    [][(NestedStep /\ last'.inner = last'.key) =>
         state'[last'.key] = Spread(state[last'.key], [x |-> 1])]_vars

C13_Witness ==
    /\ last.op = "set" /\ "inner" \in DOMAIN last
    /\ last.key = "counter" /\ last.inner = "counter"
    /\ state.counter = [add |-> "counter.add", count |-> 1,
                        inc |-> "counter.inc", x |-> 1]
    /\ commits = 3

\* C14: a snapshot taken with get() before a scoped-set call, and every record
\* in it, reads the same after the call; a commit writes no object that
\* existed before it, makes a new state object, and, when the transition
\* returned a partial, a new record for its key; the state object always
\* reads as the engine's state.
C14_ValueSemantics ==
    [][/\ (held.ref # 0 /\ held' = held) =>
             /\ Deref(heap', held.ref) = held.value
             /\ \A k \in DOMAIN held.records :
                   heap'[held.records[k]] = held.value[k]
       /\ (SetStep /\ ~last'.thrown) =>
             /\ \A r \in DOMAIN heap : heap'[r] = heap[r]
             /\ root' \notin DOMAIN heap
             /\ IsObject(Given(last'.partial, state[last'.key])) =>
                   heap'[root'][last'.key] \notin DOMAIN heap
       /\ root' # 0 => Deref(heap', root') = state']_vars

C14_Witness ==
    /\ held.ref # 0 /\ held.ref # root
    /\ held.value.counter.count = 0 /\ held.value.auth.user = Null
    /\ Deref(heap, held.ref) = held.value
    /\ state.counter.count = 1 /\ state.auth.user = "Alice"
    /\ last.op = "set"

\* a step in which a creator calls its scoped set or its get during construction
EarlyStep == last'.op = "create" /\ last' # last

\* C15 as stated: a creator's call of its scoped set or of the get during
\* construction throws to the caller of the construction: nothing is returned
\* to the creator, and no store is produced.
C15_EarlyUseFaults ==
    [][EarlyStep =>
         /\ last'.thrown
         /\ pc' = "fault"
         /\ ~IsObject(state')]_vars

\* C15 for the scoped set, and for the get of the store-building form: the call
\* throws, the construction ends there and the engine never holds a state.
C15_EarlySetFaults ==
    [][/\ (EarlyStep /\ (last'.use = "set" \/ variant = "store")) =>
             /\ last'.thrown /\ last'.error = TypeError
             /\ pc' = "fault"
             /\ ~IsObject(state')
       /\ pc = "fault" => (pc' = "fault" /\ ~IsObject(state'))]_vars

\* C15 for the get of the state-creator form: the call returns undefined and
\* the construction goes on.
C15_EarlyGetReturnsUndefined ==
    [][(EarlyStep /\ last'.use = "get" /\ variant = "creator") =>
         /\ ~last'.thrown
         /\ last'.value = Undefined
         /\ pc' = "loop"]_vars

C15_Witness ==
    /\ variant = "creator" /\ pc = "ready"
    /\ last.op = "create" /\ last.use = "get" /\ ~last.thrown
    /\ last.value = Undefined
    /\ keys = <<"auth", "counter">>
    /\ state = [auth |-> creator("auth"), counter |-> creator("counter")]

\* C16: under immer an updater that edits its record in place and returns
\* nothing leaves the same state as the updater returning the equal partial
\* on the store without middleware, after any sequence of such calls;
\* updaters returning a partial and record-form calls give the same state
\* too; no call throws and each changes the record of its own key only.
C16_ImmerEquivalence ==
    [][(SetStep /\ mw2 = "immer") =>
         /\ state2' = state'
         /\ ~last'.thrown2
         /\ \A b \in KeySet \ {last'.key} : state2'[b] = state2[b]]_vars

C16_Witness ==
    /\ mw2 = "immer" /\ last.op = "set"
    /\ last.partial = PushUpdater("Widget") /\ last.draft = DraftPush("Widget")
    /\ applied["counter"] = <<IncUpdater(1), IncUpdater(2)>>
    /\ state2.counter.count = 3 /\ state2.cart.items = <<"Widget">>
    /\ state2 = state

\* the calls of kind op that layer l has been entered with, among the entries s
SeenBy(l, op, s) == {j \in DOMAIN s : s[j].layer = l /\ s[j].op = op}

\* the layers on the api
Installed == {layers[j] : j \in DOMAIN layers}

\* C17: every scoped-set call, committing or throwing, enters every layer
\* that is on the api when the call is made, once, the layer put on last
\* first, whether one layer or several are on it and whether they were put on
\* before or after the slices were built; every call of the get enters every
\* layer once and returns the engine's state.
C17_Interception ==
    [][/\ SetStep =>
             /\ Len(seen') = Len(seen) + Len(layers)
             /\ \A l \in Installed :
                   Cardinality(SeenBy(l, "set", seen')) =
                      Cardinality(SeenBy(l, "set", seen)) + 1
             /\ \A j \in 1..Len(layers) :
                   seen'[Len(seen) + j].layer = layers[Len(layers) + 1 - j]
       /\ (last'.op = "get" /\ seen' # seen) =>
             /\ \A l \in Installed :
                   Cardinality(SeenBy(l, "get", seen')) =
                      Cardinality(SeenBy(l, "get", seen)) + 1
             /\ last'.value = state]_vars

C17_Witness ==
    /\ layers = <<"devtools", "logger">>
    /\ last.op = "set" /\ last.key = "counter" /\ ~last.thrown
    /\ Len(seen) = 3
    /\ seen[1].layer = "devtools" /\ seen[1].name = "auth/set"
    /\ seen[2].layer = "logger" /\ seen[2].name = "counter/set"
    /\ seen[3].layer = "devtools" /\ seen[3].name = "counter/set"
    /\ state.counter.count = 1 /\ state.auth.user = "Alice"

\* C18: in the state-creator form every scoped-set call of slice k, with a
\* record or with an updater function, reaches every layer on the api and,
\* unless the updater throws, the engine, with the replace flag false and the
\* action label "k/set".
C18_CommitLabel ==
    [][(SetStep /\ variant = "creator") =>
          /\ \A j \in (Len(seen) + 1)..Len(seen') :
                /\ seen'[j].replace = "false"
                /\ seen'[j].name = last'.key \o "/set"
          /\ ~last'.thrown =>
                setArgs' = [name |-> last'.key \o "/set", replace |-> "false"]]_vars

C18_Witness ==
    /\ variant = "creator"
    /\ layers = <<"devtools">>
    /\ Len(seen) = 2
    /\ seen[1] = [layer |-> "devtools", name |-> "auth/set", op |-> "set",
                  replace |-> "false"]
    /\ seen[2] = [layer |-> "devtools", name |-> "counter/set", op |-> "set",
                  replace |-> "false"]
    /\ Len(applied.auth) = 1 /\ applied.auth[1].form = "record"
    /\ Len(applied.counter) = 1 /\ applied.counter[1].form = "fn"
    /\ setArgs = [name |-> "counter/set", replace |-> "false"]
    /\ commits = 2

\* the data fields of a composite state st are those of the snapshot snap
SameData(snap, st) ==
    /\ DOMAIN snap = DOMAIN st
    /\ \A k \in DOMAIN snap :
          /\ DOMAIN snap[k] = DOMAIN st[k] \ {"add", "checkout", "inc", "login"}
          /\ \A f \in DOMAIN snap[k] : snap[k][f] = st[k][f]

\* the second store is built and rehydrated in this step
RehydrateStep == api2 = 0 /\ api2' = 2

\* C19: under persist, after every scoped-set call that returns the stored
\* snapshot holds, under each slice key, the data fields of the state (a
\* call whose updater throws leaves storage and state alone); a second store
\* built from the same definitions over a storage that holds a snapshot has,
\* when rehydration has completed, under each key the data fields of that
\* snapshot.
C19_PersistRoundTrip ==
    [][/\ (SetStep /\ layers = <<"persist">>) =>
             IF last'.thrown THEN storage' = storage /\ state' = state
             ELSE SameData(storage', state')
       /\ (RehydrateStep /\ IsObject(storage)) =>
             /\ \A k \in DOMAIN storage : \A f \in DOMAIN storage[k] :
                   state2'[k][f] = storage[k][f]
             /\ SameData(storage, state2')
             /\ SameData(storage, state)]_vars

C19_Witness ==
    /\ layers = <<"persist">>
    /\ api2 = 2 /\ mw2 = "persist"
    /\ state.counter.count = 1 /\ state.cart.items = <<"Widget">>
    /\ IsObject(storage)
    /\ storage.counter = [count |-> 1]
    /\ storage.cart = [items |-> <<"Widget">>]
    /\ storage.auth = [user |-> Null]
    /\ state2.counter.count = 1 /\ state2.cart.items = <<"Widget">>

\* the fields the update p of slice k names: those of the record, or those of
\* the record the updater returns
Named(p, k) ==
    IF p.form = "record" THEN DOMAIN p.rec
    ELSE LET r == Call(p, creator(k)) IN
         IF r.t = "return" /\ IsObject(r.v) THEN DOMAIN r.v ELSE {}

\* every update slice k has taken names only fields of its initial record
OnlyInitial(k) ==
    \A j \in DOMAIN applied[k] : Named(applied[k][j], k) \subseteq DOMAIN creator(k)

\* C20: a slice whose updates so far named only fields of its initial
\* record has exactly the fields its creator returned, action functions
\* included, in every state the store reaches; and no scoped-set call, of any
\* argument, removes a field from any slice record.
C20_ShapeStability ==
    /\ [](pc = "ready" =>
            \A k \in DOMAIN state :
                OnlyInitial(k) => DOMAIN state[k] = DOMAIN creator(k))
    /\ [][SetStep =>
            \A k \in DOMAIN state : DOMAIN state[k] \subseteq DOMAIN state'[k]]_vars

C20_Witness ==
    /\ pc = "ready" /\ variant = "creator"
    /\ Len(applied.auth) = 1 /\ Len(applied.cart) = 1 /\ Len(applied.counter) = 1
    /\ OnlyInitial("auth") /\ OnlyInitial("cart") /\ OnlyInitial("counter")
    /\ state.auth.user = "Alice" /\ state.counter.count = 2
    /\ state.cart.items = <<"Gadget">>
    /\ DOMAIN state.auth = {"login", "user"}
    /\ DOMAIN state.cart = {"add", "checkout", "items"}
    /\ DOMAIN state.counter = {"add", "count", "inc"}

\* C21: with creators that use neither capability during construction, a
\* store built from definitions whose keys come in any order and a store
\* built from the same creators with the keys in the order of DefKeys have
\* equal states right after construction and after every sequence of
\* scoped-set calls made on both; so any two orders give equal states.
C21_OrderIndependence ==
    (api2 = 2 /\ mw2 = "none") =>
        /\ state2 = state
        /\ ncalls = 0 => state = Build(Sorted(keys), EmptyObject)
        /\ last.op = "set" => last.thrown = last.thrown2

C21_Witness ==
    /\ api2 = 2 /\ mw2 = "none"
    /\ keys = <<"counter", "cart", "auth">>
    /\ ncalls = 2
    /\ state.counter.count = 1 /\ state.cart.items = <<"Widget">>
    /\ state.auth.user = Null
    /\ state2 = state

\* the step is a scoped-set call whose updater returns nothing
VoidStep ==
    /\ SetStep
    /\ last'.partial.form = "fn"
    /\ LET r == Call(last'.partial, state[last'.key])
       IN r.t = "return" /\ ~IsObject(r.v)

\* C22: on the engine without middleware, a scoped-set call whose updater
\* returns nothing returns, leaves the state an object with the value it had
\* at every key, and counts as one commit: every subscribed listener is
\* called once with that state; in the state-creator form the function
\* handed to the engine returns nothing.
C22_NoOpSentinel ==
    [][VoidStep =>
         /\ ~last'.thrown
         /\ IsObject(state')
         /\ DOMAIN state' = DOMAIN state
         /\ \A k \in DOMAIN state : state'[k] = state[k]
         /\ commits' = commits + 1
         /\ \A l \in listeners : calls'[l] = Append(calls[l], state)
         /\ variant = "creator" =>
               transition(last'.key, last'.partial, state) =
                  [t |-> "return", v |-> Undefined]]_vars

C22_Witness ==
    /\ variant = "creator"
    /\ last.op = "set" /\ last.partial = VoidUpdater /\ last.key = "counter"
    /\ ~last.thrown
    /\ listeners = {"l1"}
    /\ commits = 2
    /\ state.counter.count = 1
    /\ Len(calls["l1"]) = 2
    /\ calls["l1"][1] = state /\ calls["l1"][2] = state

\* the store after slice k's scoped set has been called with partial
After(k, partial) ==
    IF variant = "creator" THEN scopedSet(World, binding[k], partial)
    ELSE storeScopedSet(World, binding[k], partial)

\* C23: on the engine without middleware, from any state the store reaches,
\* a scoped-set call with an updater returning {} and one with an updater
\* returning nothing lead to states equal at every key, and each leaves
\* every field of every slice as it was.
C23_EmptyLikeVoid ==
    [][(SetStep /\ last'.partial \in {EmptyUpdater, VoidUpdater}) =>
         LET k == last'.key IN
         /\ ~last'.thrown
         /\ state' = After(k, EmptyUpdater).state
         /\ state' = After(k, VoidUpdater).state
         /\ DOMAIN state' = DOMAIN state
         /\ \A s \in DOMAIN state :
               /\ DOMAIN state'[s] = DOMAIN state[s]
               /\ \A f \in DOMAIN state[s] : state'[s][f] = state[s][f]]_vars

C23_Witness ==
    /\ variant = "creator"
    /\ applied["counter"] = <<IncUpdater(1), VoidUpdater, EmptyUpdater>>
    /\ last.op = "set" /\ last.partial = EmptyUpdater /\ ~last.thrown
    /\ commits = 3
    /\ state.counter = [add |-> "counter.add", count |-> 1, inc |-> "counter.inc"]
    /\ state.auth = creator("auth")

\* C24: when the updater of slice A's scoped set calls slice B's scoped set,
\* A and B different, and then returns, the state after the outer call holds
\* B's update ({y: 2}) at B and A's ({x: 1}) at A, every other record as it
\* was; and every subscribed listener has been called twice, first with the
\* state of the inner commit (B's update, not yet A's), then with the final one.
C24_NestedCrossSlice ==
    [][(NestedStep /\ last'.inner # last'.key) =>
         LET A == last'.key
             B == last'.inner
             S1 == [state EXCEPT ![B] = Spread(state[B], [y |-> 2])]
         IN /\ ~last'.thrown
            /\ state'[B] = Spread(state[B], [y |-> 2])
            /\ state'[A] = Spread(state[A], [x |-> 1])
            /\ DOMAIN state' = DOMAIN state
            /\ \A k \in DOMAIN state \ {A, B} : state'[k] = state[k]
            /\ \A l \in Listeners :
                  calls'[l] = IF l \in listeners
                              THEN calls[l] \o <<S1, state'>>
                              ELSE calls[l]]_vars

C24_Witness ==
    /\ last.op = "set" /\ "inner" \in DOMAIN last
    /\ last.key = "auth" /\ last.inner = "counter"
    /\ listeners = {"l1"}
    /\ Len(calls["l1"]) = 2
    /\ Pick(calls["l1"][1].counter, {"y"}) = [y |-> 2]
    /\ "x" \notin DOMAIN calls["l1"][1].auth
    /\ calls["l1"][2] = state
    /\ Pick(state.counter, {"y"}) = [y |-> 2]
    /\ Pick(state.auth, {"x"}) = [x |-> 1]

====
